---- MODULE Spec2Model ----
(***************************************************************************)
(* A model of simple_gtf.read_gtf (src/src/simple_gtf/read_gtf.py).        *)
(*                                                                         *)
(* A string is a sequence of one-character strings, so that the string     *)
(* operations of the program (strip_suffix, split, the regular expression  *)
(* of extract_groups, the integer parse of a cast) are computed character  *)
(* by character.  A polars null is Null; a non-null value x is Some(x).    *)
(***************************************************************************)
EXTENDS Integers, Sequences, FiniteSets, TLC

VARIABLES
    file,            \* the input: the lines of the GTF file
    N,               \* the batch size (line 96)
    pc,              \* the position of read_gtf
    raised,          \* the exception that left read_gtf, "" when none
    gtf_contents,    \* the frame read_csv returned
    i,               \* the batch loop's variable (0-based row offset)
    temp,            \* the tokenized batches
    attributes,      \* pl.concat(temp)
    features,        \* the fixed columns
    all_attributes,  \* the discovered keys, in the order unique() gave
    attr_columns,    \* the attribute columns built so far
    gtf              \* the returned table

vars == <<file, N, pc, raised, gtf_contents, i, temp, attributes, features,
          all_attributes, attr_columns, gtf>>

-----------------------------------------------------------------------------
(* Bounds of the model. *)

MaxLines == 2
MaxStmts == 3
MaxBatch == 2
MaxBatchLines == 3
MaxCastStmts == 2

-----------------------------------------------------------------------------
(* Nulls and characters. *)

Null == [valid |-> FALSE, v |-> <<>>]

Some(x) == [valid |-> TRUE, v |-> x]

Digits == {"0", "1", "2", "3", "4", "5", "6", "7", "8", "9"}

Letters == {"a", "b", "c", "d", "e", "f", "g", "h", "i", "j", "k", "l", "m",
            "n", "o", "p", "q", "r", "s", "t", "u", "v", "w", "x", "y", "z",
            "G", "F", "T"}

\* The characters the regular expression's \w matches.
IsWord(c) == c \in Digits \cup Letters \cup {"_"}

Min(S) == CHOOSE x \in S : \A y \in S : x <= y

-----------------------------------------------------------------------------
(* The names the program fixes. *)

gtf_columns ==
    << <<"s","e","q","n","a","m","e">>,
       <<"s","o","u","r","c","e">>,
       <<"f","e","a","t","u","r","e">>,
       <<"s","t","a","r","t">>,
       <<"e","n","d">>,
       <<"s","c","o","r","e">>,
       <<"s","t","r","a","n","d">>,
       <<"f","r","a","m","e">>,
       <<"a","t","t","r","i","b","u","t","e">> >>

exon_number == <<"e","x","o","n","_","n","u","m","b","e","r">>
gene_version == <<"g","e","n","e","_","v","e","r","s","i","o","n">>
transcript_support_level ==
    <<"t","r","a","n","s","c","r","i","p","t","_","s","u","p","p","o","r","t",
      "_","l","e","v","e","l">>
transcript_biotype ==
    <<"t","r","a","n","s","c","r","i","p","t","_","b","i","o","t","y","p","e">>
gene_source == <<"g","e","n","e","_","s","o","u","r","c","e">>
tag == <<"t","a","g">>
exon_version == <<"e","x","o","n","_","v","e","r","s","i","o","n">>
transcript_version ==
    <<"t","r","a","n","s","c","r","i","p","t","_","v","e","r","s","i","o","n">>
gene_biotype == <<"g","e","n","e","_","b","i","o","t","y","p","e">>
transcript_source ==
    <<"t","r","a","n","s","c","r","i","p","t","_","s","o","u","r","c","e">>
protein_version ==
    <<"p","r","o","t","e","i","n","_","v","e","r","s","i","o","n">>

Int32Keys ==
    {exon_number, gene_version, exon_version, transcript_version, protein_version}

CategoricalKeys ==
    {transcript_support_level, transcript_biotype, gene_source, tag,
     gene_biotype, transcript_source}

attribute_types ==
    [k \in Int32Keys \cup CategoricalKeys |->
        IF k \in Int32Keys THEN "Int32" ELSE "Categorical"]

\* The largest value of pl.Int32.
Int32Max == 2147483647

-----------------------------------------------------------------------------
(* The string operations of the tokenizer (lines 106-113). *)

\* .str.strip_suffix(";"): one trailing ";" is removed.
strip_suffix(s) ==
    IF Len(s) > 0 /\ s[Len(s)] = ";" THEN SubSeq(s, 1, Len(s) - 1) ELSE s

\* The places where the separator "; " starts in s.
SepAt(s) == {p \in 1..(Len(s) - 1) : s[p] = ";" /\ s[p + 1] = " "}

\* .str.split("; "): the pieces between the occurrences of "; ", found from
\* the left; a string without the separator (the empty string too) is one
\* piece.
RECURSIVE split(_)
split(s) ==
    IF SepAt(s) = {} THEN <<s>>
    ELSE LET p == Min(SepAt(s))
         IN  <<SubSeq(s, 1, p - 1)>> \o split(SubSeq(s, p + 2, Len(s)))

\* The end of the run of \w characters that starts at p: the first place
\* from p on that holds no word character (Len(s) + 1 when there is none).
RunEnd(s, p) ==
    Min({q \in p..(Len(s) + 1) : q = Len(s) + 1 \/ ~IsWord(s[q])})

\* The pattern (?<attr_name>\w+) \"(?<attr_val>\w+)\" matches at p: \w+ is
\* greedy and the character after each group is no word character, so each
\* group is the whole run of word characters from its start.
MatchAt(s, p) ==
    LET j == RunEnd(s, p)
    IN  /\ j > p
        /\ j + 1 <= Len(s)
        /\ s[j] = " "
        /\ s[j + 1] = "\""
        /\ LET k == RunEnd(s, j + 2)
           IN  k > j + 2 /\ k <= Len(s) /\ s[k] = "\""

\* .str.extract_groups(pattern): the groups of the leftmost match, found
\* anywhere in the string; both fields are null when nothing matches.
extract_groups(s) ==
    LET starts == {p \in 1..Len(s) : MatchAt(s, p)}
    IN  IF starts = {} THEN [attr_name |-> Null, attr_val |-> Null]
        ELSE LET p == Min(starts)
                 j == RunEnd(s, p)
                 k == RunEnd(s, j + 2)
             IN  [attr_name |-> Some(SubSeq(s, p, j - 1)),
                  attr_val |-> Some(SubSeq(s, j + 2, k - 1))]

\* The expression of lines 106-113 on one cell of the attribute column: a
\* null stays null through every step.
Tokenize(a) ==
    IF ~a.valid THEN Null
    ELSE LET parts == split(strip_suffix(a.v))
         IN  Some([q \in 1..Len(parts) |-> extract_groups(parts[q])])

-----------------------------------------------------------------------------
(* Frames.  A row of gtf_contents holds the eight fixed fields of its line,  *)
(* kept as the number of the line they came from, and the attribute field.  *)
(* An attribute column is [name, dtype, cells], one cell per row; a cell is *)
(* Null or Some(list of values).                                            *)

\* pl.read_csv (lines 75-93): the lines that do not start with "#", in file
\* order; a field equal to null_values (".") is null, and so is an empty
\* string field.
RECURSIVE DataRows(_, _)
DataRows(f, n) ==
    IF n > Len(f) THEN <<>>
    ELSE IF f[n].comment THEN DataRows(f, n + 1)
    ELSE <<[line |-> n,
            attribute |-> IF f[n].attribute \in {<<".">>, <<>>}
                          THEN Null ELSE Some(f[n].attribute)]>>
         \o DataRows(f, n + 1)

read_csv(f) == DataRows(f, 1)

\* The slice taken from the start of the frame whatever lo is.
SliceFromStart(frame, lo, n) ==
    SubSeq(frame, 1, IF n < Len(frame) THEN n ELSE Len(frame))

\* frame[lo : lo + n] of Python, lo counted from 0.
Slice(frame, lo, n) ==
    SubSeq(frame, lo + 1, IF lo + n < Len(frame) THEN lo + n ELSE Len(frame))

\* Lines 103-122 on one batch: the tokenized attribute column.
TokenizeBatch(batch) == [q \in 1..Len(batch) |-> Tokenize(batch[q].attribute)]

\* pl.concat(temp) (line 124): the batches one after the other.
RECURSIVE Concat(_)
Concat(frames) ==
    IF frames = <<>> THEN <<>> ELSE Head(frames) \o Concat(Tail(frames))

\* Lines 126-135: the fixed columns of every row.
SelectFeatures(frame) == [q \in 1..Len(frame) |-> frame[q].line]

\* Lines 138-148: the attr_name of every struct of every list, exploded,
\* made unique, nulls dropped.
DiscoveredKeys(attrs) ==
    UNION {{attrs[q].v[m].attr_name.v :
               m \in {n \in 1..Len(attrs[q].v) : attrs[q].v[n].attr_name.valid}} :
           q \in {r \in 1..Len(attrs) : attrs[r].valid}}

\* The orders in which unique() may hand back the keys: it keeps no order.
Orders(S) ==
    {o \in [1..Cardinality(S) -> S] :
        \A a, b \in 1..Cardinality(S) : o[a] = o[b] => a = b}

\* WhenThen without the comparison of the key.
WhenThenAnyKey(list, attr_name) ==
    [m \in 1..Len(list) |-> list[m].attr_val]

\* Lines 157-159: the value of a struct whose attr_name is the wanted one,
\* null for the others (a null attr_name compares to null, which is no match).
WhenThen(list, attr_name) ==
    [m \in 1..Len(list) |->
        IF list[m].attr_name = Some(attr_name) THEN list[m].attr_val ELSE Null]

IsValid(x) == x.valid

\* drop_nulls left out: the nulls stay in the list.
keep_nulls(list) == [m \in 1..Len(list) |-> list[m].v]

\* .list.drop_nulls() (line 161) on one list.
drop_nulls(list) ==
    LET kept == SelectSeq(list, IsValid)
    IN  [m \in 1..Len(kept) |-> kept[m].v]

\* Lines 153-163: the column of one key; the list operations leave a null
\* list null.
SelectColumn(attrs, attr_name) ==
    [name |-> attr_name,
     dtype |-> "String",
     cells |-> [q \in 1..Len(attrs) |->
                  IF attrs[q].valid
                  THEN Some(drop_nulls(WhenThen(attrs[q].v, attr_name)))
                  ELSE Null]]

DigitChars == <<"0", "1", "2", "3", "4", "5", "6", "7", "8", "9">>

DigitVal(c) == (CHOOSE n \in 1..10 : DigitChars[n] = c) - 1

\* ParseInt32 with the range test off by one: the largest Int32 fails too.
RECURSIVE ParseInt32Short(_, _)
ParseInt32Short(s, acc) ==
    IF s = <<>> THEN Some(acc)
    ELSE IF Head(s) \notin Digits THEN Null
    ELSE IF acc >= (Int32Max - DigitVal(Head(s))) \div 10 THEN Null
    ELSE ParseInt32Short(Tail(s), acc * 10 + DigitVal(Head(s)))

\* The strict cast of one string to pl.Int32: the digits are read from the
\* left; a character that is no digit, or a value above Int32Max, fails the
\* cast (Null).
RECURSIVE ParseInt32(_, _)
ParseInt32(s, acc) ==
    IF s = <<>> THEN Some(acc)
    ELSE IF Head(s) \notin Digits THEN Null
    ELSE IF acc > (Int32Max - DigitVal(Head(s))) \div 10 THEN Null
    ELSE ParseInt32(Tail(s), acc * 10 + DigitVal(Head(s)))

CastValue(x, dtype) == IF dtype = "Int32" THEN ParseInt32(x, 0) ELSE Some(x)

\* Every value of every list of the column casts to dtype.
Castable(col, dtype) ==
    \A q \in 1..Len(col.cells) :
        col.cells[q].valid =>
            \A m \in 1..Len(col.cells[q].v) : CastValue(col.cells[q].v[m], dtype).valid

\* this_col.cast(pl.List(dtype)) (line 168), when it does not raise.
CastColumn(col, dtype) ==
    [name |-> col.name,
     dtype |-> dtype,
     cells |-> [q \in 1..Len(col.cells) |->
                  IF col.cells[q].valid
                  THEN Some([m \in 1..Len(col.cells[q].v) |->
                               CastValue(col.cells[q].v[m], dtype).v])
                  ELSE Null]]

\* The cast without strictness: a value that does not convert becomes null
\* and nothing is raised.
TryCastLenient(col) ==
    IF col.name \in DOMAIN attribute_types
    THEN CastColumn(col, attribute_types[col.name])
    ELSE col

\* Lines 165-173: a key of attribute_types is cast to its type; the cast is
\* strict and raises InvalidOperationError when a value does not convert,
\* and the except clause then keeps the column as it was.
TryCast(col) ==
    IF col.name \in DOMAIN attribute_types
    THEN IF Castable(col, attribute_types[col.name])
         THEN CastColumn(col, attribute_types[col.name])
         ELSE col
    ELSE col

\* The names of the frames handed to pl.concat(how="horizontal") (line 177).
ColumnNames(cols) ==
    SubSeq(gtf_columns, 1, 8) \o [m \in 1..Len(cols) |-> cols[m].name]

HasDuplicate(names) ==
    \E a, b \in 1..Len(names) : a < b /\ names[a] = names[b]

-----------------------------------------------------------------------------
(* The inputs: files of a bounded number of lines that hold a bounded       *)
(* number of attribute statements overall.  A line is a comment or a data line; the  *)
(* attribute field of a data line is ".", empty, or statements joined by   *)
(* "; ", with or without a closing ";".                                     *)

gene_id == <<"g","e","n","e","_","i","d">>
gene_name == <<"g","e","n","e","_","n","a","m","e">>
foo == <<"f","o","o">>
baz == <<"b","a","z">>
malformed_no_quotes ==
    <<"m","a","l","f","o","r","m","e","d","_","n","o","_","q","u","o","t","e","s">>

\* The statement  key "value".
Stmt(key, value) == key \o <<" ", "\"">> \o value \o <<"\"">>

RECURSIVE Join(_)
Join(stmts) ==
    IF Len(stmts) = 1 THEN stmts[1]
    ELSE stmts[1] \o <<";", " ">> \o Join(Tail(stmts))

CommentLine == [comment |-> TRUE, attribute |-> <<>>]

DataLine(a) == [comment |-> FALSE, attribute |-> a]

AnyBlank == {CommentLine, DataLine(<<".">>), DataLine(<<>>)}

DotOnly == {DataLine(<<".">>)}

\* The lines that hold n statements of pool; blanks are the lines that hold
\* none.
LinesWith(pool, blanks, n) ==
    IF n = 0 THEN blanks
    ELSE UNION {{DataLine(Join(q)), DataLine(Join(q) \o <<";">>)} :
                q \in [1..n -> pool]}

RECURSIVE FilesOf(_, _, _, _)
FilesOf(pool, blanks, lines, budget) ==
    IF lines = 0 THEN {<<>>}
    ELSE UNION {{<<l>> \o f : l \in LinesWith(pool, blanks, n),
                              f \in FilesOf(pool, blanks, lines - 1, budget - n)} :
                n \in 0..budget}

Files(pool, blanks, maxlines, maxstmts) ==
    UNION {FilesOf(pool, blanks, n, maxstmts) : n \in 0..maxlines}

\* A key with several values in one row, and a key outside attribute_types.
PoolPivot ==
    {Stmt(tag, <<"a">>), Stmt(tag, <<"b">>), Stmt(gene_id, <<"G", "1">>)}

PoolBatch == {Stmt(tag, <<"a">>), Stmt(gene_id, <<"G", "1">>)}

\* A key named as a fixed column.
PoolDup ==
    {Stmt(gtf_columns[2], <<"x">>), Stmt(tag, <<"a">>), Stmt(gene_id, <<"G", "1">>)}

\* Statements that match the pattern, one that does not, and one that holds
\* a match after other text.
PoolTok ==
    {Stmt(foo, <<"b", "a", "r">>),
     malformed_no_quotes,
     Stmt(baz, <<"q", "u", "x">>),
     Stmt(<<"m", "y", "-", "k", "e", "y">>, <<"v", "a", "l">>)}

\* Values that cast and values that do not.
PoolCast ==
    {Stmt(exon_number, <<"7">>), Stmt(exon_number, <<"x", "1">>),
     Stmt(tag, <<"a">>), Stmt(gene_id, <<"G", "1">>)}

\* Digit strings around the largest Int32.
PoolInt ==
    {Stmt(exon_number, <<"0", "7">>),
     Stmt(exon_number, <<"2","1","4","7","4","8","3","6","4","7">>),
     Stmt(exon_number, <<"2","1","4","7","4","8","3","6","4","8">>),
     Stmt(gene_version, <<"3">>)}

NoTable == [names |-> <<>>, features |-> <<>>, columns |-> <<>>]

\* The program fixes N = 100_000, more than the rows of any file here; the
\* model takes N from sizes, MaxBatch standing for a batch that holds the
\* whole file and the smaller sizes for files of several batches.
InitWith(pool, blanks, maxlines, maxstmts, sizes) ==
    /\ file \in Files(pool, blanks, maxlines, maxstmts)
    /\ N \in sizes
    /\ pc = "read_csv"
    /\ raised = ""
    /\ gtf_contents = <<>>
    /\ i = 0
    /\ temp = <<>>
    /\ attributes = <<>>
    /\ features = <<>>
    /\ all_attributes = <<>>
    /\ attr_columns = <<>>
    /\ gtf = NoTable

Init == InitWith(PoolPivot, AnyBlank, MaxLines, MaxStmts, {MaxBatch})

-----------------------------------------------------------------------------
(* The steps of read_gtf. *)

\* What pl.read_csv does with an input that has no data row: it raises
\* NoDataError or hands back a frame of no rows, depending on the input and
\* the polars version; both are kept.
ReadOutcomes(rows) == IF rows = <<>> THEN {"NoDataError", ""} ELSE {""}

\* Lines 75-97.
ReadCsv ==
    /\ pc = "read_csv"
    /\ \E outcome \in ReadOutcomes(read_csv(file)) :
          IF outcome = ""
          THEN /\ gtf_contents' = read_csv(file)
               /\ pc' = "batches"
               /\ raised' = raised
          ELSE /\ gtf_contents' = gtf_contents
               /\ pc' = "raised"
               /\ raised' = outcome
    /\ i' = 0
    /\ temp' = <<>>
    /\ UNCHANGED <<file, N, attributes, features, all_attributes, attr_columns, gtf>>

\* Lines 98-123: one turn of the loop over range(0, height, N).
Batch ==
    /\ pc = "batches"
    /\ i < Len(gtf_contents)
    /\ temp' = Append(temp, TokenizeBatch(Slice(gtf_contents, i, N)))
    /\ i' = i + N
    /\ UNCHANGED <<file, N, pc, raised, gtf_contents, attributes, features,
                   all_attributes, attr_columns, gtf>>

\* Lines 124-135, after the loop: pl.concat raises ValueError on an empty
\* list of frames.
ConcatBatches ==
    /\ pc = "batches"
    /\ i >= Len(gtf_contents)
    /\ IF temp = <<>>
       THEN /\ pc' = "raised"
            /\ raised' = "ValueError"
            /\ UNCHANGED <<attributes, features>>
       ELSE /\ attributes' = Concat(temp)
            /\ features' = SelectFeatures(gtf_contents)
            /\ pc' = "unique"
            /\ raised' = raised
    /\ UNCHANGED <<file, N, gtf_contents, i, temp, all_attributes, attr_columns, gtf>>

\* Lines 138-151.
Unique ==
    /\ pc = "unique"
    /\ all_attributes' \in Orders(DiscoveredKeys(attributes))
    /\ attr_columns' = <<>>
    /\ pc' = "columns"
    /\ UNCHANGED <<file, N, raised, gtf_contents, i, temp, attributes, features, gtf>>

\* Lines 152-174: one turn of the loop over all_attributes.
Column ==
    /\ pc = "columns"
    /\ Len(attr_columns) < Len(all_attributes)
    /\ attr_columns' =
          Append(attr_columns,
                 TryCast(SelectColumn(attributes,
                                      all_attributes[Len(attr_columns) + 1])))
    /\ UNCHANGED <<file, N, pc, raised, gtf_contents, i, temp, attributes,
                   features, all_attributes, gtf>>

\* Lines 177-184, after the loop: pl.concat(how="horizontal") raises
\* DuplicateError when two columns have one name.
Horizontal ==
    /\ pc = "columns"
    /\ Len(attr_columns) = Len(all_attributes)
    /\ IF HasDuplicate(ColumnNames(attr_columns))
       THEN /\ pc' = "raised"
            /\ raised' = "DuplicateError"
            /\ gtf' = gtf
       ELSE /\ gtf' = [names |-> ColumnNames(attr_columns),
                       features |-> features,
                       columns |-> attr_columns]
            /\ pc' = "done"
            /\ raised' = raised
    /\ UNCHANGED <<file, N, gtf_contents, i, temp, attributes, features,
                   all_attributes, attr_columns>>

Next == ReadCsv \/ Batch \/ ConcatBatches \/ Unique \/ Column \/ Horizontal

Spec == Init /\ [][Next]_vars

InitBatch == InitWith(PoolBatch, DotOnly, MaxBatchLines, MaxStmts, 1..MaxBatch)

SpecBatch == InitBatch /\ [][Next]_vars

InitDup == InitWith(PoolDup, DotOnly, MaxLines, MaxStmts, {MaxBatch})

SpecDup == InitDup /\ [][Next]_vars

InitTok == InitWith(PoolTok, DotOnly, MaxLines, MaxStmts, {MaxBatch})

SpecTok == InitTok /\ [][Next]_vars

InitCast == InitWith(PoolCast, DotOnly, MaxLines, MaxCastStmts, {MaxBatch})

SpecCast == InitCast /\ [][Next]_vars

InitInt == InitWith(PoolInt, DotOnly, MaxLines, MaxCastStmts, {MaxBatch})

SpecInt == InitInt /\ [][Next]_vars

-----------------------------------------------------------------------------
(* What the input says, read off the file without the batches, the columns  *)
(* and the casts of the program.                                            *)

Rows == read_csv(file)

HasPair(p) == p.attr_name.valid

\* The Attribute Pairs of every row, in the order of its attribute string.
AllPairs ==
    [r \in 1..Len(Rows) |->
        LET t == Tokenize(Rows[r].attribute)
        IN  IF t.valid THEN SelectSeq(t.v, HasPair) ELSE <<>>]

\* The values of the pairs whose key is k, in order.
RECURSIVE ValuesFor(_, _)
ValuesFor(pairs, k) ==
    IF pairs = <<>> THEN <<>>
    ELSE (IF Head(pairs).attr_name.v = k THEN <<Head(pairs).attr_val.v>> ELSE <<>>)
         \o ValuesFor(Tail(pairs), k)

\* The values a cell holds: a null cell holds none.
CellValues(cell) == IF cell.valid THEN cell.v ELSE <<>>

Finished == pc \in {"done", "raised"}

FixedNames == {gtf_columns[m] : m \in 1..8}

NamesOf(t) == {t.names[m] : m \in 1..Len(t.names)}

-----------------------------------------------------------------------------
(* The claims on the pivot. *)

\* C1: in the returned table, for every row r and every key column k, the
\* values of cell (r, k) are exactly the values of the pairs of row r whose
\* key is k, in the order of the attribute string (in the column's type),
\* and every column has one cell per row.
C1_CellsAreRowValues ==
    pc = "done" =>
        LET P == AllPairs
        IN  \A c \in 1..Len(gtf.columns) :
                /\ Len(gtf.columns[c].cells) = Len(P)
                /\ \A r \in 1..Len(P) :
                      LET want == ValuesFor(P[r], gtf.columns[c].name)
                      IN  /\ Len(CellValues(gtf.columns[c].cells[r])) = Len(want)
                          /\ \A m \in 1..Len(want) :
                                Some(CellValues(gtf.columns[c].cells[r])[m])
                                    = CastValue(want[m], gtf.columns[c].dtype)

\* A row with two different tag values, in a table with a second key column.
C1_Witness ==
    /\ pc = "done"
    /\ Len(gtf.columns) = 2
    /\ \E c \in 1..2, r \in 1..Len(gtf.features) :
          /\ gtf.columns[c].name = tag
          /\ gtf.columns[c].cells[r] = Some(<< <<"a">>, <<"b">> >>)

\* C2: in the returned table no cell of a key column is null, and the cell
\* of a row without a pair of the key is the empty list.
C2_CellsNeverNull ==
    pc = "done" =>
        LET P == AllPairs
        IN  \A c \in 1..Len(gtf.columns) : \A r \in 1..Len(P) :
                /\ gtf.columns[c].cells[r].valid
                /\ ValuesFor(P[r], gtf.columns[c].name) = <<>>
                      => gtf.columns[c].cells[r].v = <<>>

feature_id == <<"f","e","a","t","u","r","e","_","i","d">>

\* C4: the returned table has a feature_id column whose values are
\* 0 .. n-1 in ingestion order.
C4_FeatureIdColumn ==
    pc = "done" =>
        \E m \in 1..Len(gtf.names) :
            /\ gtf.names[m] = feature_id
            /\ m > 8
            /\ gtf.columns[m - 8].cells = [r \in 1..Len(Rows) |-> r - 1]

\* C7: on an input without data rows read_gtf returns, and the table has no
\* row and only the fixed columns.
C7_EmptyInputReturns ==
    (Finished /\ Rows = <<>>) =>
        /\ pc = "done"
        /\ gtf.names = SubSeq(gtf_columns, 1, 8)
        /\ gtf.features = <<>>
        /\ gtf.columns = <<>>

-----------------------------------------------------------------------------
(* The claim on the batches (SpecBatch: batch sizes 1 .. MaxBatch). *)

-----------------------------------------------------------------------------
(* The claim on the column set (SpecDup: a key named as a fixed column). *)

\* The keys of the pairs P.
KeysOf(P) ==
    UNION {{P[r][m].attr_name.v : m \in 1..Len(P[r])} : r \in 1..Len(P)}

\* C3: on an input with a data row read_gtf returns a table whose column
\* set is the eight fixed columns with the keys tokenized in the file.
C3_ColumnSet ==
    (Finished /\ Rows # <<>>) =>
        /\ pc = "done"
        /\ NamesOf(gtf) = FixedNames \cup KeysOf(AllPairs)

-----------------------------------------------------------------------------
(* The claims on the tokenizer (SpecTok). *)

AllWord(s, a, b) == \A q \in a..b : IsWord(s[q])

\* The matches of  \w+ "\w+"  in s, as <<start of the key, place of the
\* space, place of the closing quote>>.
Found(s) ==
    UNION {UNION {{<<p, j, k>> : p \in {q \in 1..(j - 1) : AllWord(s, q, j - 1)}} :
                  k \in {q \in (j + 3)..Len(s) :
                            s[q] = "\"" /\ AllWord(s, j + 2, q - 1)}} :
           j \in {q \in 2..(Len(s) - 3) : s[q] = " " /\ s[q + 1] = "\""}}

\* The pair the pattern finds in the statement, from its leftmost match;
\* Null when the statement does not match.
PairFound(s) ==
    LET F == Found(s)
    IN  IF F = {} THEN Null
        ELSE LET t == CHOOSE t \in F : \A u \in F : t[1] <= u[1]
             IN  Some([attr_name |-> Some(SubSeq(s, t[1], t[2] - 1)),
                       attr_val |-> Some(SubSeq(s, t[2] + 2, t[3] - 1))])

\* The statements of every row.
AllStatements ==
    [r \in 1..Len(Rows) |->
        IF Rows[r].attribute.valid THEN split(strip_suffix(Rows[r].attribute.v))
        ELSE <<>>]

\* The pairs of the statements that match, statement by statement in order.
RECURSIVE PairsFound(_)
PairsFound(parts) ==
    IF parts = <<>> THEN <<>>
    ELSE (IF PairFound(Head(parts)).valid THEN <<PairFound(Head(parts)).v>> ELSE <<>>)
         \o PairsFound(Tail(parts))

\* C5: a statement in which the pattern finds no match gives no pair and
\* no column and fails neither the row nor the file: read_gtf returns, the
\* key columns are those of the statements that match, and each cell holds
\* the values of the row's matching statements of that key, in their order.
C5_DropPolicy ==
    (Finished /\ Rows # <<>>) =>
        /\ pc = "done"
        /\ LET S == AllStatements
               P == [r \in 1..Len(S) |-> PairsFound(S[r])]
           IN  /\ NamesOf(gtf) = FixedNames \cup KeysOf(P)
               /\ \A c \in 1..Len(gtf.columns) : \A r \in 1..Len(P) :
                     CellValues(gtf.columns[c].cells[r])
                         = ValuesFor(P[r], gtf.columns[c].name)

\* The row  foo "bar"; malformed_no_quotes; baz "qux"  in a returned table.
C5_Witness ==
    /\ pc = "done"
    /\ \E r \in 1..Len(gtf.features) :
          /\ AllStatements[r] = <<Stmt(foo, <<"b", "a", "r">>), malformed_no_quotes,
                                  Stmt(baz, <<"q", "u", "x">>)>>
          /\ \E c \in 1..Len(gtf.columns) :
                /\ gtf.columns[c].name = baz
                /\ gtf.columns[c].cells[r] = Some(<< <<"q", "u", "x">> >>)

\* C10: a statement yields a pair only when the whole statement is
\* key "value", and the pair is then that key and that value.
C10_WholeStatement ==
    pc = "unique" =>
        LET S == AllStatements
        IN  \A r \in 1..Len(S) : \A m \in 1..Len(S[r]) :
                attributes[r].v[m].attr_name.valid =>
                    S[r][m] = Stmt(attributes[r].v[m].attr_name.v,
                                   attributes[r].v[m].attr_val.v)

-----------------------------------------------------------------------------
(* The claims on the casts (SpecCast, SpecInt). *)

AllDigits(s) == \A q \in 1..Len(s) : s[q] \in Digits

\* A digit string without its leading zeros (one digit is kept).
RECURSIVE StripZeros(_)
StripZeros(s) ==
    IF Len(s) > 1 /\ Head(s) = "0" THEN StripZeros(Tail(s)) ELSE s

\* The decimal digits of a natural number.
RECURSIVE ToDigits(_)
ToDigits(n) ==
    IF n < 10 THEN <<DigitChars[n + 1]>>
    ELSE ToDigits(n \div 10) \o <<DigitChars[(n % 10) + 1]>>

Int32MaxDigits == <<"2", "1", "4", "7", "4", "8", "3", "6", "4", "7">>

\* Digit strings of one length: a is at most b.
DigitsLeq(a, b) ==
    \/ a = b
    \/ \E q \in 1..Len(a) :
          /\ DigitVal(a[q]) < DigitVal(b[q])
          /\ \A o \in 1..(q - 1) : a[o] = b[o]

\* The digit string denotes a value of the signed 32-bit range.
InRange(s) ==
    \/ Len(StripZeros(s)) < Len(Int32MaxDigits)
    \/ /\ Len(StripZeros(s)) = Len(Int32MaxDigits)
       /\ DigitsLeq(StripZeros(s), Int32MaxDigits)

\* The value x of a cell is the string s in type dtype: the same string, or
\* the integer the digit string denotes.
SameValue(x, s, dtype) ==
    IF dtype = "Int32" THEN ToDigits(x) = StripZeros(s) ELSE x = s

\* The string casts to the type.
CastsTo(s, dtype) == dtype # "Int32" \/ (AllDigits(s) /\ InRange(s))

\* The string values of the column of k, row by row.
Original(P, k) == [r \in 1..Len(P) |-> ValuesFor(P[r], k)]

\* Every one of the values casts to the type.
AllCast(orig, dtype) ==
    \A r \in 1..Len(orig) : \A m \in 1..Len(orig[r]) : CastsTo(orig[r][m], dtype)

\* The column holds the values orig, all of them in type dtype.
ColumnIs(col, orig, dtype) ==
    /\ col.dtype = dtype
    /\ \A r \in 1..Len(orig) :
          /\ Len(CellValues(col.cells[r])) = Len(orig[r])
          /\ \A m \in 1..Len(orig[r]) :
                SameValue(CellValues(col.cells[r])[m], orig[r][m], dtype)

\* C8: the cast of a column is all or nothing and never fatal: read_gtf
\* returns; the column of a key of attribute_types whose values all cast
\* holds them all in the target type; the column of such a key with a value
\* that does not cast, and the column of any other key, holds the strings
\* it had, all of them and in order.
C8_AllOrNothing ==
    (Finished /\ Rows # <<>>) =>
        /\ pc = "done"
        /\ LET P == AllPairs
           IN  \A c \in 1..Len(gtf.columns) :
                   LET k == gtf.columns[c].name
                       orig == Original(P, k)
                   IN  IF k \in DOMAIN attribute_types
                          /\ AllCast(orig, attribute_types[k])
                       THEN ColumnIs(gtf.columns[c], orig, attribute_types[k])
                       ELSE ColumnIs(gtf.columns[c], orig, "String")

\* An exon_number column left as strings, with a value that would cast next
\* to the one that does not.
C8_Witness ==
    /\ pc = "done"
    /\ \E c \in 1..Len(gtf.columns) :
          /\ gtf.columns[c].name = exon_number
          /\ gtf.columns[c].dtype = "String"
          /\ \E r \in 1..Len(gtf.features) :
                gtf.columns[c].cells[r] = Some(<< <<"7">>, <<"x", "1">> >>)

\* The values are all digit strings.
AllNumeric(orig) ==
    \A r \in 1..Len(orig) : \A m \in 1..Len(orig[r]) : AllDigits(orig[r][m])

\* C9 as stated: the column of an integer-typed key whose values are all
\* digit strings is cast to integers, each the integer its string denotes,
\* whatever the magnitude.
C9_AnyMagnitude ==
    pc = "done" =>
        LET P == AllPairs
        IN  \A c \in 1..Len(gtf.columns) :
                LET orig == Original(P, gtf.columns[c].name)
                IN  (gtf.columns[c].name \in Int32Keys /\ AllNumeric(orig))
                        => ColumnIs(gtf.columns[c], orig, "Int32")

\* C9 as amended: the column of an integer-typed key whose values are all
\* digit strings of at most 2147483647 is cast to integers, each the integer
\* its string denotes; when one of the digit strings is above 2147483647 the
\* column stays as strings, unchanged.
C9_Int32Range ==
    pc = "done" =>
        LET P == AllPairs
        IN  \A c \in 1..Len(gtf.columns) :
                LET orig == Original(P, gtf.columns[c].name)
                IN  (gtf.columns[c].name \in Int32Keys /\ AllNumeric(orig))
                        => IF \A r \in 1..Len(orig) : \A m \in 1..Len(orig[r]) :
                                 InRange(orig[r][m])
                           THEN ColumnIs(gtf.columns[c], orig, "Int32")
                           ELSE ColumnIs(gtf.columns[c], orig, "String")

\* An exon_number column of integers that holds 7 (from "07") and the
\* largest Int32.
C9_Witness ==
    /\ pc = "done"
    /\ \E c \in 1..Len(gtf.columns) :
          /\ gtf.columns[c].name = exon_number
          /\ gtf.columns[c].dtype = "Int32"
          /\ \E r \in 1..Len(gtf.features) :
                gtf.columns[c].cells[r] = Some(<<7, Int32Max>>)

====
